---- MODULE Spec2Model ----
(***************************************************************************)
(* Model of the fan-out/fan-in summarization pipeline of                   *)
(* src/src/agents/audio_agent.py and of its cost accounting,               *)
(* src/src/agents/cost_tracker.py.                                         *)
(*                                                                         *)
(* One run of AudioAgent.process_transcription is modelled.  The compiled  *)
(* graph START -> orchestrator -> Send(summarize_audio) x N -> synthesizer *)
(* -> END runs in supersteps: the tasks of a superstep run concurrently,   *)
(* each keeps its writes to itself, and the writes are applied to the      *)
(* channels when every task of the superstep has finished.                 *)
(*                                                                         *)
(* Tasks are numbered: 0 is the orchestrator node, 1..MaxSections are the  *)
(* summarize_audio tasks (task i is the Send for the i-th section) and     *)
(* SynTask is the synthesizer node.  Every task that calls the chat model  *)
(* runs the CostTracker callbacks; these are modelled statement by         *)
(* statement, each `x += d` as a read followed by a write, because the     *)
(* worker tasks run them concurrently, in threads, on one shared tracker   *)
(* without a lock.  The interleavings explored are those with at most      *)
(* MaxPreempt preemptions inside a callback, each between a load and the   *)
(* store that follows it.                                                  *)
(*                                                                         *)
(* Spec is that run.  SpecTracker is a CostTracker alone, created for any  *)
(* model name and driven by any sequence of its handlers, each run without *)
(* interruption, with responses of every shape.  SpecAgents follows the    *)
(* trackers of several runs: one AudioAgent per inbound message            *)
(* (src/src/message_processing/message_handler.py), runs one after another *)
(* on an agent, runs of different agents interleaved.  SpecWorkers follows *)
(* what the summarize_audio tasks of two runs send to the provider.        *)
(* SpecService is OpenAIService (src/services/openai_service.py) with its  *)
(* backoff decorators, and summarize_transcription on top of it.           *)
(* SpecRegistry is a CommandRegistry (src/commands/command_registry.py)    *)
(* under any sequence of register and get_command_help.                    *)
(* SpecHandler is one webhook request, through MessageHandler.handle_update*)
(* or through telegram_bot_function (src/function_app.py), with the calls  *)
(* it makes to the messaging gateway and to the audio processing.          *)
(***************************************************************************)
EXTENDS Integers, Sequences, FiniteSets, TLC

\* ------------------------------------------------------------------ bounds
\* the most sections a plan has
MaxSections == 2
\* the most times a task is preempted inside a callback of the tracker, in
\* one run (switches between callbacks, and while a task waits for the
\* provider, are not counted)
MaxPreempt == 1
\* the most calls of register on one CommandRegistry
MaxRegistrations == 3
\* the most events of a sequence of tracker events, and the most calls of
\* a sequence of calls to the OpenAI service
MaxEvents == 4
\* the agents, the most runs of one agent and the most provider calls of a
\* run, where several runs are followed
MaxAgents == 2
MaxRuns == 2
MaxCalls == 2

\* ------------------------------------------------------- program constants
\* audio_agent.py:101  telegram_len_limit = 4096
telegram_len_limit == 4096
\* openai_service.py:47 and :96, max_tries of the backoff decorators
transcribe_max_tries == 3
\* message_handler.py:133-134 (function_app.py:95 has the same limit, 600)
max_audio_duration == 600
summarization_threshold == 250
\* function_app.py:106
function_app_threshold == 90
\* message_handler.py:101, what the bot tells its users
documented_threshold == 90
chat_max_tries == 1
\* length of the separator "\n\n" of audio_agent.py:98
SepLen == 2

\* cost_tracker.py:25-32, rates per 1000 tokens, in units of 1e-5 dollar; a
\* cost is therefore counted in units of 1e-8 dollar per token.
pricing ==
  [m \in {"gpt-4o-mini", "gpt-4o", "gpt-4"} |->
     CASE m = "gpt-4o-mini" -> [prompt |-> 15, completion |-> 60]
       [] m = "gpt-4o"      -> [prompt |-> 50, completion |-> 150]
       [] m = "gpt-4"       -> [prompt |-> 75, completion |-> 450]]

DefaultPricing == [prompt |-> 10, completion |-> 20]

model_pricing(model_name) ==
  IF model_name \in DOMAIN pricing THEN pricing[model_name] ELSE DefaultPricing

\* message_handler.py:154  AudioAgent(model_name="gpt-4o-mini", temperature=0)
ModelName == "gpt-4o-mini"

\* ------------------------------------------------------------ value sets
SynTask == MaxSections + 1
Workers == 1..MaxSections
Tasks == 0..SynTask

NodeNames == {"orchestrator", "summarize_audio", "synthesizer"}
NoNode == "None"

\* the token usage a response may report (prompt_tokens, completion_tokens)
Usages == {[p |-> 2, c |-> 3]}
NoUsage == [p |-> -1, c |-> -1]

\* lengths of the text a worker may return, and of the text the compression
\* call may return (chosen around the limit of 4096)
WorkerLens == {1, 4093}
SynthLens == {4096, 4097}

\* a text: what it is about and how long it is.  src is the section a
\* worker's summary is the summary of, SynTask for the synthesizer's
\* response.
Text(src, len) == [src |-> src, len |-> len]
MissingText == Text(-1, 0)

\* ------------------------------------------------------------- the tracker
AbsentRec ==
  [present |-> FALSE, owner |-> SynTask + 1, prompt_tokens |-> 0, completion_tokens |-> 0,
   total_tokens |-> 0, cost |-> 0, calls |-> 0]

\* cost_tracker.py:38-44, the record set_current_node inserts; owner names
\* the task that created this dict object
ZeroRec(t) == [AbsentRec EXCEPT !.present = TRUE, !.owner = t]

\* cost_tracker.py:11-32
NewTracker(model_name) ==
  [model_name |-> model_name, total_tokens |-> 0, prompt_tokens |-> 0,
   completion_tokens |-> 0, total_cost |-> 0, calls |-> 0,
   node_costs |-> [n \in NodeNames |-> AbsentRec], current_node |-> NoNode]

\* call_cost with the prompt rate applied to the completion tokens too
call_cost_PromptRate(model_name, u) ==
  (u.p + u.c) * model_pricing(model_name).prompt

\* cost_tracker.py:70-74
call_cost(model_name, u) ==
  u.p * model_pricing(model_name).prompt + u.c * model_pricing(model_name).completion

\* the updates of on_llm_start (cost_tracker.py:50-52), in program order
StartOps ==
  << [tgt |-> "global", fld |-> "calls"],
     [tgt |-> "node",   fld |-> "calls"] >>

\* the updates of on_llm_end (cost_tracker.py:65-83), in program order
EndOps ==
  << [tgt |-> "global", fld |-> "prompt_tokens"],
     [tgt |-> "global", fld |-> "completion_tokens"],
     [tgt |-> "global", fld |-> "total_tokens"],
     [tgt |-> "global", fld |-> "total_cost"],
     [tgt |-> "node",   fld |-> "prompt_tokens"],
     [tgt |-> "node",   fld |-> "completion_tokens"],
     [tgt |-> "node",   fld |-> "total_tokens"],
     [tgt |-> "node",   fld |-> "cost"] >>

\* what an update of on_llm_end adds, for the usage u of the response
EndDelta(model_name, op, u) ==
  CASE op.fld = "prompt_tokens"     -> u.p
    [] op.fld = "completion_tokens" -> u.c
    [] op.fld = "total_tokens"      -> u.p + u.c
    [] OTHER                        -> call_cost(model_name, u)

\* cost_tracker.py:93 and :102, f"${x:.6f}": a cost rounded to 1e-6 dollar
\* (100 units), printed
Fmt6(cost) == (cost + 50) \div 100

\* cost_tracker.py:85-109
get_cost_summary(tr) ==
  [model |-> tr.model_name,
   total_cost |-> Fmt6(tr.total_cost),
   prompt_tokens |-> tr.prompt_tokens,
   completion_tokens |-> tr.completion_tokens,
   total_tokens |-> tr.total_tokens,
   calls |-> tr.calls,
   cost_per_node |->
     [n \in {m \in NodeNames : tr.node_costs[m].present} |->
        [cost |-> Fmt6(tr.node_costs[n].cost),
         prompt_tokens |-> tr.node_costs[n].prompt_tokens,
         completion_tokens |-> tr.node_costs[n].completion_tokens,
         total_tokens |-> tr.node_costs[n].total_tokens,
         calls |-> tr.node_costs[n].calls]]]

NoSummary == [model |-> "None"]

VARIABLES
  stage,               \* the stage of the run
  visited,             \* the stages entered so far, in order
  tracker,             \* AudioAgent.cost_tracker
  pc,                  \* per task: position in the node function / callbacks
  ix,                  \* per task: index of the current update in StartOps / EndOps
  tmp,                 \* per task: the value read by the current `+=`
  ref,                 \* per task: the node record it holds
  resp,                \* per task: the provider's response
  reports_usage,       \* the provider reports token usage with its responses
  requests,            \* per task: the requests it sent to the provider
  call_failed,         \* per task: a request of it failed
  running,             \* the task that is inside a callback and has the processor
  preempts,            \* the preemptions inside a callback so far
  writes,              \* per worker task: the completed_sections it returns
  arrival,             \* the worker tasks of the superstep in the order they finished
  reordered,           \* the workers finished in another order than they were sent
  sections,            \* State.sections
  worker_section,      \* per worker task: State["section"], the section of its Send
  completed_sections,  \* State.completed_sections
  synth_input,         \* the list the synthesizer joins (audio_agent.py:97)
  synth_runs,          \* how many times the synthesizer node was started
  final_summary,       \* State.final_summary
  cost_summary,        \* State.cost_summary
  result,              \* what process_transcription gave its caller
  trk,                 \* a CostTracker driven by a sequence of events
  trk_raised,          \* the exception a handler of trk raised last
  trk_events,          \* the number of events trk has handled
  heap,                \* the CostTracker objects created, each with its calls
  agents,              \* per message: its AudioAgent and the run on it
  reports,             \* per agent: the cost report of its last run
  run_input,           \* per run of two: the transcription and the plan
  worker_state,        \* per run: the state each summarize_audio task is given
  worker_request,      \* per run: the messages each worker sent to the provider
  worker_output,       \* per run: the content each worker's call returned
  update,              \* the update a webhook request carries
  hpc,                 \* the position of the request in its handler
  handler,             \* the handlers the update was dispatched to, in order
  log,                 \* what the request did so far: gateway and provider actions
  bot_message_id,      \* the message id the progress message was given
  http_status,         \* the status of the HTTP response
  svc,                 \* a call of OpenAIService or summarize_transcription
  svc_done,            \* the calls of the service that have returned
  _commands,           \* CommandRegistry._commands
  registrations,       \* the calls of register made so far, in order
  answer               \* the last call of get_command_help and what it returned

\* the variables of the graph run, of the tasks, and of the channels
runVars == << stage, visited, result >>
trkVars == << trk, trk_raised, trk_events >>
agentVars == << heap, agents, reports >>
workerVars == << run_input, worker_state, worker_request, worker_output >>
handlerVars == << update, hpc, handler, log, bot_message_id, http_status >>
registryVars == << _commands, registrations, answer >>
serviceVars == << svc, svc_done, registryVars >>
moreVars == << workerVars, handlerVars, serviceVars >>
schedVars == << running, preempts, reports_usage, trkVars, agentVars, moreVars >>
callVars == << requests, call_failed >>
chanVars == << writes, arrival, reordered, sections, worker_section,
               completed_sections, synth_input,
               synth_runs, final_summary, cost_summary >>

\* the variables of one run of the pipeline
pipelineVars ==
  << stage, visited, tracker, pc, ix, tmp, ref, resp, reports_usage,
     requests, call_failed, running, preempts, writes, arrival, reordered,
     sections, worker_section, completed_sections, synth_input, synth_runs,
     final_summary, cost_summary, result >>

vars == << pipelineVars, trkVars, agentVars, moreVars >>

\* ------------------------------------------------------------------ helpers
\* NodeName with every node function naming the orchestrator's node
NodeName_Single(t) == "orchestrator"

\* the node name a task passes to set_current_node (audio_agent.py:64, :81)
NodeName(t) == IF t = 0 THEN "orchestrator" ELSE "summarize_audio"

\* a task number that no task has
NoTask == SynTask + 1
NoRef == [node |-> NoNode, owner |-> NoTask]
\* no response yet (content -2; -1 is a response that matches no schema)
NoResp == [usage |-> NoUsage, content |-> -2]

\* the number of worker tasks of the run: one Send per section
\* (audio_agent.py:128)
NumWorkers == Len(sections)
Dispatched == 1..NumWorkers

\* the record object a task holds is still the one stored in node_costs
Live(tr, r) ==
  /\ r.node \in NodeNames
  /\ tr.node_costs[r.node].present
  /\ tr.node_costs[r.node].owner = r.owner

\* the value a `+=` reads: a global counter, or a field of the held record
\* (a record that was replaced in node_costs is read by nobody else, its
\* content is not tracked)
ReadField(tr, op, r) ==
  IF op.tgt = "global" THEN tr[op.fld]
  ELSE IF Live(tr, r) THEN tr.node_costs[r.node][op.fld] ELSE 0

\* the store of a `+=`: into the tracker, or into the held record
WriteField(tr, op, r, v) ==
  IF op.tgt = "global" THEN [tr EXCEPT ![op.fld] = v]
  ELSE IF Live(tr, r) THEN [tr EXCEPT !.node_costs[r.node][op.fld] = v]
  ELSE tr

\* "\n\n".join(parts) and len of it (audio_agent.py:98, :100)
RECURSIVE SumLen(_)
SumLen(parts) ==
  IF parts = << >> THEN 0 ELSE Head(parts).len + SumLen(Tail(parts))

JoinLen(parts) ==
  IF parts = << >> THEN 0 ELSE SumLen(parts) + SepLen * (Len(parts) - 1)

\* "\n\n".join(parts) as a text: the part itself when there is one part,
\* else a new text (src 0) of the joined length
Joined(parts) ==
  IF Len(parts) = 1 THEN parts[1] ELSE Text(0, JoinLen(parts))

\* ------------------------------------------------------------------- Init
\* what the caller of process_transcription has: nothing yet, the returned
\* dict (status "ok"), or an exception (status "error", error says which)
NoResult ==
  [status |-> "none", error |-> "None", summary |-> MissingText,
   cost_summary |-> NoSummary]
\* the exception of a node function, raised again by invoke
\* (audio_agent.py:167)
ErrorResult == [NoResult EXCEPT !.status = "error", !.error = "NodeError"]
\* state["cost_summary"] of a final state without that key
\* (audio_agent.py:173)
KeyErrorResult == [NoResult EXCEPT !.status = "error", !.error = "KeyError"]

\* AudioAgent.__init__ (audio_agent.py:46-59), before process_transcription
PipelineInit ==
  /\ stage = "START"
  /\ visited = << "START" >>
  /\ tracker = NewTracker(ModelName)
  /\ pc = [t \in Tasks |-> "idle"]
  /\ ix = [t \in Tasks |-> 0]
  /\ tmp = [t \in Tasks |-> 0]
  /\ ref = [t \in Tasks |-> NoRef]
  /\ resp = [t \in Tasks |-> NoResp]
  /\ requests = [t \in Tasks |-> 0]
  /\ call_failed = [t \in Tasks |-> FALSE]
  /\ running = NoTask
  /\ preempts = 0
  /\ writes = [t \in Workers |-> << >>]
  /\ arrival = << >>
  /\ reordered = FALSE
  /\ sections = << >>
  /\ worker_section = [t \in Workers |-> 0]
  /\ completed_sections = << >>
  /\ synth_input = << >>
  /\ synth_runs = 0
  /\ final_summary = MissingText
  /\ cost_summary = NoSummary
  /\ result = NoResult

\* no tracker event yet
TrackerIdle ==
  /\ trk_raised = "None"
  /\ trk_events = 0

\* no agent yet: no tracker object, no run, no report
NoAgent == [created |-> FALSE, cost_tracker |-> 0, callbacks |-> 0,
            pc |-> "idle", made |-> 0, runs |-> 0]
NoReport == [calls |-> 0, made |-> 0]

AgentsIdle ==
  /\ heap = << >>
  /\ agents = [a \in 1..MaxAgents |-> NoAgent]
  /\ reports = [a \in 1..MaxAgents |-> NoReport]

\* the two runs that are compared
Runs == {1, 2}

\* no run compared: no plan, no worker
WorkersIdle ==
  /\ run_input = [r \in Runs |-> [transcription |-> "t1", sections |-> << >>]]
  /\ worker_state = [r \in Runs |-> << >>]
  /\ worker_request = [r \in Runs |-> << >>]
  /\ worker_output = [r \in Runs |-> << >>]

\* no webhook request
NoUpdate ==
  [entry |-> "none", system |-> FALSE, command |-> "none", text |-> "absent",
   audio |-> FALSE, voice |-> FALSE, duration |-> 0]

HandlerIdle ==
  /\ update = NoUpdate
  /\ hpc = "idle"
  /\ handler = << >>
  /\ log = << >>
  /\ bot_message_id = 0
  /\ http_status = 0

\* no call of the service
NoValue == [kind |-> "none", id |-> "none"]
NoCall ==
  [op |-> "none", pc |-> "idle", input |-> NoValue, tries |-> 0, attempts |-> 0,
   failure |-> "None", raised |-> "None", ret |-> NoValue]

\* CommandRegistry.__init__: self._commands = {}
NoCommands == [k \in {} |-> "None"]
NoAnswer == [name |-> << >>, ret |-> "None"]
RegistryIdle == _commands = NoCommands /\ registrations = << >> /\ answer = NoAnswer

ServiceIdle ==
  /\ svc = NoCall
  /\ svc_done = 0
  /\ RegistryIdle

MoreIdle == WorkersIdle /\ HandlerIdle /\ ServiceIdle

\* one run of the pipeline, with a provider that reports token usage or
\* one that does not
Init ==
  /\ PipelineInit
  /\ reports_usage \in BOOLEAN
  /\ trk = NewTracker(ModelName)
  /\ TrackerIdle
  /\ AgentsIdle
  /\ MoreIdle

Enter(s) ==
  /\ stage' = s
  /\ visited' = Append(visited, s)

\* ------------------------------------------------------------- scheduling
\* a task at (p, i) is inside a callback: past its first statement, not
\* past its last
Inside(p, i) ==
  \/ p \in {"chk37", "ins38", "start_w", "end_r", "end_w", "cap79"}
  \/ p = "start_r" /\ i > 1

\* the positions between a load (or the test of line 37) and the store that
\* depends on it.  A switch at another position of a callback gives no
\* result that a switch before the callback does not give, the updates of
\* different tasks being additions; the preemptions explored are those here.
Gaps == {"ins38", "start_w", "end_w"}

\* task t takes a step: when another task is inside a callback and has the
\* processor, this is a preemption
Sched(t) ==
  /\ IF running \in {NoTask, t} THEN TRUE
     ELSE preempts < MaxPreempt /\ pc[running] \in Gaps
  /\ preempts' = IF running \in {NoTask, t} THEN preempts ELSE preempts + 1
  /\ UNCHANGED << reports_usage, trkVars, agentVars, moreVars >>
  /\ running' = IF Inside(pc'[t], ix'[t]) THEN t ELSE NoTask

\* ----------------------------------------------- process_transcription
\* audio_agent.py:160-169: a fresh tracker, then the graph is invoked and its
\* first superstep runs the orchestrator node
Invoke ==
  /\ stage = "START"
  /\ Enter("PLANNING")
  /\ tracker' = NewTracker(ModelName)
  /\ pc' = [pc EXCEPT ![0] = "set36"]
  /\ UNCHANGED << ix, tmp, ref, resp, callVars, schedVars, chanVars, result >>

\* ----------------------------------------------------- set_current_node
\* cost_tracker.py:36
SetNode(t) ==
  /\ pc[t] = "set36"
  /\ tracker' = [tracker EXCEPT !.current_node = NodeName(t)]
  /\ pc' = [pc EXCEPT ![t] = "chk37"]
  /\ UNCHANGED << ix, tmp, ref, resp, callVars, chanVars, runVars >>
  /\ Sched(t)

\* cost_tracker.py:37, the test `node_name not in self.node_costs`
ChkNode(t) ==
  /\ pc[t] = "chk37"
  /\ IF ~tracker.node_costs[NodeName(t)].present
       THEN /\ pc' = [pc EXCEPT ![t] = "ins38"]
            /\ ix' = ix
       ELSE /\ pc' = [pc EXCEPT ![t] = "start_r"]
            /\ ix' = [ix EXCEPT ![t] = 1]
  /\ UNCHANGED << tracker, tmp, ref, resp, callVars, chanVars, runVars >>
  /\ Sched(t)

\* cost_tracker.py:38-44, the store of a new zero record
InsNode(t) ==
  /\ pc[t] = "ins38"
  /\ tracker' = [tracker EXCEPT !.node_costs[NodeName(t)] = ZeroRec(t)]
  /\ pc' = [pc EXCEPT ![t] = "start_r"]
  /\ ix' = [ix EXCEPT ![t] = 1]
  /\ UNCHANGED << tmp, ref, resp, callVars, chanVars, runVars >>
  /\ Sched(t)

\* --------------------------------------------------------- on_llm_start
\* the node record a callback updates: self.node_costs[self.current_node]
HeldRef(tr) ==
  [node |-> tr.current_node, owner |-> tr.node_costs[tr.current_node].owner]

\* a node update can be made: `if self.current_node` holds and the node has
\* a record (a missing record is a KeyError, which the callback manager logs
\* and drops)
NodeUpdatable(tr) ==
  /\ tr.current_node # NoNode
  /\ tr.node_costs[tr.current_node].present

\* cost_tracker.py:50 and :51-52, the load of `x += 1`
StartRead(t) ==
  /\ pc[t] = "start_r"
  /\ LET op == StartOps[ix[t]] IN
       IF op.tgt = "node" /\ ~NodeUpdatable(tracker)
         THEN /\ pc' = [pc EXCEPT ![t] = "request"]
              /\ ix' = [ix EXCEPT ![t] = 0]
              /\ UNCHANGED << tmp, ref >>
         ELSE LET r == IF op.tgt = "node" THEN HeldRef(tracker) ELSE ref[t] IN
              /\ ref' = [ref EXCEPT ![t] = r]
              /\ tmp' = [tmp EXCEPT ![t] = ReadField(tracker, op, r)]
              /\ pc' = [pc EXCEPT ![t] = "start_w"]
              /\ ix' = ix
  /\ UNCHANGED << tracker, resp, callVars, chanVars, runVars >>
  /\ Sched(t)

\* cost_tracker.py:50 and :52, the store of `x += 1`
StartWrite(t) ==
  /\ pc[t] = "start_w"
  /\ tracker' = WriteField(tracker, StartOps[ix[t]], ref[t], tmp[t] + 1)
  /\ IF ix[t] < Len(StartOps)
       THEN /\ ix' = [ix EXCEPT ![t] = ix[t] + 1]
            /\ pc' = [pc EXCEPT ![t] = "start_r"]
       ELSE /\ ix' = [ix EXCEPT ![t] = 0]
            /\ pc' = [pc EXCEPT ![t] = "request"]
  /\ tmp' = [tmp EXCEPT ![t] = 0]
  /\ ref' = [ref EXCEPT ![t] = NoRef]
  /\ UNCHANGED << resp, callVars, chanVars, runVars >>
  /\ Sched(t)

\* --------------------------------------------------------- the provider
\* what the provider may answer to the request of task t: a plan of k
\* sections, or nothing matching the Sections schema (-1), for the planner;
\* a text of some length for a worker or the synthesizer
Contents(t) ==
  IF t = 0 THEN -1..MaxSections
  ELSE IF t = SynTask THEN SynthLens ELSE WorkerLens

\* RequestFails with a worker's failure swallowed into an empty summary
RequestFails_Swallowed(t) ==
  /\ pc[t] = "request"
  /\ requests' = [requests EXCEPT ![t] = requests[t] + 1]
  /\ call_failed' = [call_failed EXCEPT ![t] = TRUE]
  /\ IF t \in Workers
       THEN /\ pc' = [pc EXCEPT ![t] = "done"]
            /\ writes' = [writes EXCEPT ![t] = << Text(t, 0) >>]
            /\ arrival' = Append(arrival, t)
       ELSE /\ pc' = [pc EXCEPT ![t] = "failed"]
            /\ UNCHANGED << writes, arrival >>
  /\ UNCHANGED << tracker, ix, tmp, ref, resp, reordered, sections,
                  worker_section, completed_sections, synth_input, synth_runs,
                  final_summary, cost_summary, runVars >>
  /\ Sched(t)

\* the request of self.planner.invoke / self.llm.invoke (audio_agent.py:66,
\* :83, :114) fails: the exception leaves the node function, on_llm_end is
\* not called
RequestFails(t) ==
  /\ pc[t] = "request"
  /\ requests' = [requests EXCEPT ![t] = requests[t] + 1]
  /\ call_failed' = [call_failed EXCEPT ![t] = TRUE]
  /\ pc' = [pc EXCEPT ![t] = "failed"]
  /\ UNCHANGED << tracker, ix, tmp, ref, resp, chanVars, runVars >>
  /\ Sched(t)

\* the request is answered, with or without token usage (llm_output); the
\* content of the response is drawn where the node function reads it
RequestAnswered(t) ==
  /\ pc[t] = "request"
  /\ requests' = [requests EXCEPT ![t] = requests[t] + 1]
  /\ \E u \in (IF reports_usage THEN Usages ELSE {NoUsage}) :
       resp' = [resp EXCEPT ![t] = [usage |-> u, content |-> -2]]
  /\ pc' = [pc EXCEPT ![t] = "end57"]
  /\ UNCHANGED << tracker, ix, tmp, ref, call_failed, chanVars, runVars >>
  /\ Sched(t)

\* ----------------------------------------------------------- on_llm_end
\* cost_tracker.py:57, `if hasattr(response, "llm_output") and response.llm_output`
EndCheck(t) ==
  /\ pc[t] = "end57"
  /\ IF resp[t].usage = NoUsage
       THEN /\ pc' = [pc EXCEPT ![t] = "ret"]
            /\ ix' = ix
       ELSE /\ pc' = [pc EXCEPT ![t] = "end_r"]
            /\ ix' = [ix EXCEPT ![t] = 1]
  /\ UNCHANGED << tracker, tmp, ref, resp, callVars, chanVars, runVars >>
  /\ Sched(t)

\* cost_tracker.py:65-67, :75 and :80-83, the load of `x += d`
EndRead(t) ==
  /\ pc[t] = "end_r"
  /\ tmp' = [tmp EXCEPT ![t] = ReadField(tracker, EndOps[ix[t]], ref[t])]
  /\ pc' = [pc EXCEPT ![t] = "end_w"]
  /\ UNCHANGED << tracker, ix, ref, resp, callVars, chanVars, runVars >>
  /\ Sched(t)

\* the position after the store of update i of on_llm_end: the next update,
\* the test of line 78 before the first node update, or the end of the handler
AfterEndOp(i) ==
  IF i = Len(EndOps) THEN "ret"
  ELSE IF EndOps[i + 1].tgt = "node" /\ EndOps[i].tgt = "global" THEN "cap79"
  ELSE "end_r"

\* cost_tracker.py:65-67, :75 and :80-83, the store of `x += d`
EndWrite(t) ==
  /\ pc[t] = "end_w"
  /\ tracker' = WriteField(tracker, EndOps[ix[t]], ref[t],
                           tmp[t] + EndDelta(tracker.model_name, EndOps[ix[t]],
                                             resp[t].usage))
  /\ pc' = [pc EXCEPT ![t] = AfterEndOp(ix[t])]
  /\ ix' = [ix EXCEPT ![t] = IF ix[t] = Len(EndOps) THEN 0 ELSE ix[t] + 1]
  /\ tmp' = [tmp EXCEPT ![t] = 0]
  /\ ref' = [ref EXCEPT ![t] = IF ix[t] = Len(EndOps) THEN NoRef ELSE ref[t]]
  /\ UNCHANGED << resp, callVars, chanVars, runVars >>
  /\ Sched(t)

\* cost_tracker.py:78-79, `if self.current_node:` and
\* `node_data = self.node_costs[self.current_node]`
EndCapture(t) ==
  /\ pc[t] = "cap79"
  /\ IF NodeUpdatable(tracker)
       THEN /\ ref' = [ref EXCEPT ![t] = HeldRef(tracker)]
            /\ pc' = [pc EXCEPT ![t] = "end_r"]
            /\ ix' = ix
       ELSE /\ ref' = ref
            /\ pc' = [pc EXCEPT ![t] = "ret"]
            /\ ix' = [ix EXCEPT ![t] = 0]
  /\ UNCHANGED << tracker, tmp, resp, callVars, chanVars, runVars >>
  /\ Sched(t)

\* ------------------------------------------------ the node functions return
\* audio_agent.py:76: summary_sections.sections; a response that does not
\* match the schema (content -1) has no sections and the node function raises
OrchestratorReturns ==
  /\ pc[0] = "ret"
  /\ \E c \in Contents(0) :
       /\ resp' = [resp EXCEPT ![0] = [usage |-> NoUsage, content |-> c]]
       /\ pc' = [pc EXCEPT ![0] = IF c < 0 THEN "failed" ELSE "done"]
  /\ UNCHANGED << tracker, ix, tmp, ref, callVars, chanVars, runVars >>
  /\ Sched(0)

\* audio_agent.py:83-93: the summary of state["section"], returned as
\* {"completed_sections": [summary.content]}
WorkerWrites(t, content) == << Text(worker_section[t], content) >>

WorkerReturns(t) ==
  /\ pc[t] = "ret"
  /\ \E c \in Contents(t) : writes' = [writes EXCEPT ![t] = WorkerWrites(t, c)]
  /\ arrival' = Append(arrival, t)
  /\ pc' = [pc EXCEPT ![t] = "done"]
  /\ resp' = [resp EXCEPT ![t] = NoResp]
  /\ UNCHANGED << tracker, ix, tmp, ref, callVars, reordered, sections,
                  worker_section, completed_sections, synth_input, synth_runs,
                  final_summary, cost_summary, runVars >>
  /\ Sched(t)

\* audio_agent.py:114-124: the response's content is the final summary, the
\* cost summary is taken from the tracker after the call
SynthesizerReturns ==
  /\ pc[SynTask] = "ret"
  /\ \E c \in Contents(SynTask) : final_summary' = Text(SynTask, c)
  /\ cost_summary' = get_cost_summary(tracker)
  /\ pc' = [pc EXCEPT ![SynTask] = "done"]
  /\ resp' = [resp EXCEPT ![SynTask] = NoResp]
  /\ UNCHANGED << tracker, ix, tmp, ref, callVars, writes, arrival, reordered,
                  sections, worker_section, completed_sections, synth_input,
                  synth_runs, runVars >>
  /\ Sched(SynTask)

\* ------------------------------------------------------------ the graph
Resolved(t) == pc[t] \in {"done", "failed"}

\* PlanningFails with a fallback plan of one section instead of the error
PlanningFails_Fallback ==
  /\ stage = "PLANNING"
  /\ pc[0] = "failed"
  /\ sections' = << 1 >>
  /\ worker_section' = [worker_section EXCEPT ![1] = 1]
  /\ pc' = [pc EXCEPT ![1] = "set36"]
  /\ Enter("FANOUT")
  /\ UNCHANGED << tracker, ix, tmp, ref, resp, callVars, schedVars, writes,
                  arrival, reordered, completed_sections, synth_input,
                  synth_runs, final_summary, cost_summary, result >>

\* a node function raised in the orchestrator's superstep: invoke raises
\* (audio_agent.py:167), process_transcription raises
PlanningFails ==
  /\ stage = "PLANNING"
  /\ pc[0] = "failed"
  /\ Enter("FAILED")
  /\ result' = ErrorResult
  /\ UNCHANGED << tracker, pc, ix, tmp, ref, resp, callVars, schedVars, chanVars >>

\* audio_agent.py:76 and :126-128 with a plan of no section: no Send, no
\* task is left, the graph ends without final_summary and cost_summary and
\* state["cost_summary"] (audio_agent.py:173) raises KeyError
EmptyPlan ==
  /\ stage = "PLANNING"
  /\ pc[0] = "done"
  /\ resp[0].content = 0
  /\ Enter("FAILED")
  /\ result' = KeyErrorResult
  /\ UNCHANGED << tracker, pc, ix, tmp, ref, resp, callVars, schedVars, chanVars >>

\* Sends with every Send carrying the first section
Sends_FirstOnly(secs) == [i \in 1..Len(secs) |-> [section |-> secs[1]]]

\* audio_agent.py:128: [Send("summarize_audio", {"section": s}) for s in
\* state["sections"]], the payloads of the Sends in order
Sends(secs) == [i \in 1..Len(secs) |-> [section |-> secs[i]]]

\* audio_agent.py:76 and :126-128: the sections are written to the state
\* and one summarize_audio task is started per Send, with the Send's
\* payload as its state, all in one superstep
assign_workers ==
  /\ stage = "PLANNING"
  /\ pc[0] = "done"
  /\ resp[0].content > 0
  /\ sections' = [i \in 1..resp[0].content |-> i]
  /\ LET sends == Sends(sections') IN
       /\ pc' = [t \in Tasks |-> IF t \in 1..Len(sends) THEN "set36" ELSE pc[t]]
       /\ worker_section' =
            [t \in Workers |-> IF t <= Len(sends) THEN sends[t].section ELSE 0]
  /\ resp' = [resp EXCEPT ![0] = NoResp]
  /\ Enter("FANOUT")
  /\ UNCHANGED << tracker, ix, tmp, ref, callVars, schedVars, writes, arrival, reordered,
                  completed_sections, synth_input, synth_runs, final_summary,
                  cost_summary, result >>

\* BarrierReached with the superstep over at the first task that resolves
BarrierReached_Any == \E t \in Dispatched : Resolved(t)

\* the superstep of the worker tasks is over when every task has returned
\* or raised
BarrierReached == \A t \in Dispatched : Resolved(t)

\* AnyWorkerFailed with the run aborted only when every worker failed
AnyWorkerFailed_All == \A t \in Dispatched : pc[t] = "failed"

\* a task of the superstep raised
AnyWorkerFailed == \E t \in Dispatched : pc[t] = "failed"

\* a worker's exception is raised again by invoke once the superstep is over
WorkersFail ==
  /\ stage = "FANOUT"
  /\ BarrierReached
  /\ AnyWorkerFailed
  /\ Enter("FAILED")
  /\ result' = ErrorResult
  /\ UNCHANGED << tracker, pc, ix, tmp, ref, resp, callVars, schedVars, chanVars >>

\* WriteOrder with the writes applied as the tasks finish
WriteOrder_Arrival == arrival

\* the order in which the writes of the superstep's tasks are applied: the
\* order of the tasks, which is the order of the Sends (audio_agent.py:128)
WriteOrder == [i \in 1..NumWorkers |-> i]

\* operator.add over the writes, in that order (audio_agent.py:33)
RECURSIVE AddWrites(_, _)
AddWrites(acc, order) ==
  IF order = << >> THEN acc
  ELSE AddWrites(acc \o writes[Head(order)], Tail(order))

\* the writes of the worker tasks are applied to completed_sections
FanIn ==
  /\ stage = "FANOUT"
  /\ BarrierReached
  /\ ~AnyWorkerFailed
  /\ completed_sections' = AddWrites(completed_sections, WriteOrder)
  /\ writes' = [t \in Workers |-> << >>]
  /\ arrival' = << >>
  /\ reordered' = (arrival # [i \in 1..NumWorkers |-> i])
  /\ Enter("FANIN")
  /\ UNCHANGED << tracker, pc, ix, tmp, ref, resp, callVars, schedVars,
                  sections, worker_section, synth_input, synth_runs,
                  final_summary, cost_summary, result >>

\* StartSynthesizer with one execution of the synthesizer per incoming edge
StartSynthesizer_PerEdge ==
  /\ stage = "FANIN"
  /\ synth_input' = completed_sections
  /\ synth_runs' = synth_runs + NumWorkers
  /\ pc' = [pc EXCEPT ![SynTask] = "start_r"]
  /\ ix' = [ix EXCEPT ![SynTask] = 1]
  /\ Enter("SYNTHESIZING")
  /\ UNCHANGED << tracker, tmp, ref, resp, callVars, schedVars, writes, arrival,
                  reordered, sections, worker_section, completed_sections,
                  final_summary, cost_summary, result >>

\* the edge summarize_audio -> synthesizer (audio_agent.py:144): the next
\* superstep runs the synthesizer once; it reads completed_sections and
\* calls the chat model whatever the length (audio_agent.py:97-114), without
\* a call of set_current_node
StartSynthesizer ==
  /\ stage = "FANIN"
  /\ synth_input' = completed_sections
  /\ synth_runs' = synth_runs + 1
  /\ pc' = [pc EXCEPT ![SynTask] = "start_r"]
  /\ ix' = [ix EXCEPT ![SynTask] = 1]
  /\ Enter("SYNTHESIZING")
  /\ UNCHANGED << tracker, tmp, ref, resp, callVars, schedVars, writes, arrival,
                  reordered, sections, worker_section, completed_sections,
                  final_summary, cost_summary, result >>

\* the synthesizer's request raised
SynthesisFails ==
  /\ stage = "SYNTHESIZING"
  /\ pc[SynTask] = "failed"
  /\ Enter("FAILED")
  /\ result' = ErrorResult
  /\ UNCHANGED << tracker, pc, ix, tmp, ref, resp, callVars, schedVars, chanVars >>

\* Finish with the synthesizer run once per incoming edge
Finish_Rerun ==
  /\ stage = "SYNTHESIZING"
  /\ pc[SynTask] = "done"
  /\ IF synth_runs < NumWorkers
       THEN /\ Enter("SYNTHESIZING")
            /\ synth_runs' = synth_runs + 1
            /\ pc' = [pc EXCEPT ![SynTask] = "start_r"]
            /\ ix' = [ix EXCEPT ![SynTask] = 1]
            /\ UNCHANGED result
       ELSE /\ Enter("DONE")
            /\ result' = [status |-> "ok", error |-> "None", summary |-> final_summary,
                          cost_summary |-> cost_summary]
            /\ UNCHANGED << synth_runs, pc, ix >>
  /\ UNCHANGED << tracker, tmp, ref, resp, callVars, schedVars, writes, arrival,
                  reordered, sections, worker_section, completed_sections,
                  synth_input, final_summary, cost_summary >>

\* audio_agent.py:145 and :188-191: the graph ends, process_transcription
\* returns the summary and the cost summary
Finish ==
  /\ stage = "SYNTHESIZING"
  /\ pc[SynTask] = "done"
  /\ Enter("DONE")
  /\ result' = [status |-> "ok", error |-> "None", summary |-> final_summary,
                cost_summary |-> cost_summary]
  /\ UNCHANGED << tracker, pc, ix, tmp, ref, resp, callVars, schedVars, chanVars >>

Next ==
  \/ Invoke
  \/ \E t \in Tasks : SetNode(t)
  \/ \E t \in Tasks : ChkNode(t)
  \/ \E t \in Tasks : InsNode(t)
  \/ \E t \in Tasks : StartRead(t)
  \/ \E t \in Tasks : StartWrite(t)
  \/ \E t \in Tasks : RequestFails(t)
  \/ \E t \in Tasks : RequestAnswered(t)
  \/ \E t \in Tasks : EndCheck(t)
  \/ \E t \in Tasks : EndRead(t)
  \/ \E t \in Tasks : EndWrite(t)
  \/ \E t \in Tasks : EndCapture(t)
  \/ OrchestratorReturns
  \/ \E t \in Workers : WorkerReturns(t)
  \/ SynthesizerReturns
  \/ PlanningFails
  \/ EmptyPlan
  \/ assign_workers
  \/ WorkersFail
  \/ FanIn
  \/ StartSynthesizer
  \/ SynthesisFails
  \/ Finish

Spec == Init /\ [][Next]_vars

\* ==================================================================
\* The tracker alone, driven by any sequence of events
\* ==================================================================
\* the model names a tracker is created for: those of the pricing table and
\* one that is not in it
ModelNames == DOMAIN pricing \cup {"unknown-model"}

\* the token counts a usage entry may hold
Counts == {2, 1000}

\* a token_usage dict: any of the keys prompt_tokens / completion_tokens
\* may be missing
UsageDicts ==
  UNION {[K -> Counts] : K \in SUBSET {"prompt_tokens", "completion_tokens"}}

EmptyDict == [k \in {} |-> 0]

\* the responses on_llm_end may be given: without llm_output (None, or {}),
\* with an llm_output that has no token_usage entry, with one whose
\* token_usage is None, and with one whose token_usage is a dict
Responses ==
  {[llm_output |-> FALSE, token_usage |-> "absent", usage |-> EmptyDict],
   [llm_output |-> TRUE, token_usage |-> "absent", usage |-> EmptyDict],
   [llm_output |-> TRUE, token_usage |-> "null", usage |-> EmptyDict]}
  \cup {[llm_output |-> TRUE, token_usage |-> "dict", usage |-> d] : d \in UsageDicts}

\* dict.get(key, 0)
Get(d, key) == IF key \in DOMAIN d THEN d[key] ELSE 0

\* cost_tracker.py:34-44, run without interruption
set_current_node(tr, node_name) ==
  [tr EXCEPT !.current_node = node_name,
             !.node_costs[node_name] = IF @.present THEN @ ELSE ZeroRec(NoTask)]

\* cost_tracker.py:46-52, run without interruption
on_llm_start(tr) ==
  IF tr.current_node # NoNode
    THEN [tr EXCEPT !.calls = @ + 1, !.node_costs[tr.current_node].calls = @ + 1]
    ELSE [tr EXCEPT !.calls = @ + 1]

\* cost_tracker.py:65-83 for the counts u, run without interruption
Account(tr, u) ==
  LET cost == call_cost(tr.model_name, u)
      glob == [tr EXCEPT !.prompt_tokens = @ + u.p,
                         !.completion_tokens = @ + u.c,
                         !.total_tokens = @ + u.p + u.c,
                         !.total_cost = @ + cost]
  IN IF tr.current_node # NoNode
       THEN [glob EXCEPT !.node_costs[tr.current_node] =
               [@ EXCEPT !.prompt_tokens = @ + u.p,
                         !.completion_tokens = @ + u.c,
                         !.total_tokens = @ + u.p + u.c,
                         !.cost = @ + cost]]
       ELSE glob

\* cost_tracker.py:54-83: the tracker after the handler and the exception
\* it raised.  Line 57 skips a response without llm_output; line 58 gives {}
\* for a missing token_usage entry and None for a null one, and None has no
\* get (line 61)
on_llm_end(tr, response) ==
  IF ~response.llm_output THEN [tr |-> tr, raised |-> "None"]
  ELSE IF response.token_usage = "null"
    THEN [tr |-> tr, raised |-> "AttributeError"]
  ELSE [tr |-> Account(tr, [p |-> Get(response.usage, "prompt_tokens"),
                            c |-> Get(response.usage, "completion_tokens")]),
        raised |-> "None"]

\* a tracker is created for some model name (cost_tracker.py:11-32)
InitTracker ==
  /\ PipelineInit
  /\ reports_usage = TRUE
  /\ trk \in {NewTracker(m) : m \in ModelNames}
  /\ TrackerIdle
  /\ AgentsIdle
  /\ MoreIdle

TrkSetNode(n) ==
  /\ trk_events < MaxEvents
  /\ trk' = set_current_node(trk, n)
  /\ trk_raised' = "None"
  /\ trk_events' = trk_events + 1
  /\ UNCHANGED << pipelineVars, agentVars, moreVars >>

TrkStart ==
  /\ trk_events < MaxEvents
  /\ trk' = on_llm_start(trk)
  /\ trk_raised' = "None"
  /\ trk_events' = trk_events + 1
  /\ UNCHANGED << pipelineVars, agentVars, moreVars >>

TrkEnd(response) ==
  /\ trk_events < MaxEvents
  /\ trk' = on_llm_end(trk, response).tr
  /\ trk_raised' = on_llm_end(trk, response).raised
  /\ trk_events' = trk_events + 1
  /\ UNCHANGED << pipelineVars, agentVars, moreVars >>

NextTracker ==
  \/ \E n \in NodeNames : TrkSetNode(n)
  \/ TrkStart
  \/ \E r \in Responses : TrkEnd(r)

SpecTracker == InitTracker /\ [][NextTracker]_vars

\* ==================================================================
\* Several runs: one AudioAgent per inbound message, runs one after another
\* on an agent, the runs of different agents interleaved
\* ==================================================================
Agents == 1..MaxAgents

\* CostTracker(...): a new tracker object on the heap, with no call; its
\* reference is its position
NewObject(h) == Append(h, 0)

InitAgents ==
  /\ PipelineInit
  /\ reports_usage = TRUE
  /\ trk = NewTracker(ModelName)
  /\ TrackerIdle
  /\ AgentsIdle
  /\ MoreIdle

\* message_handler.py:154, AudioAgent(...): AudioAgent.__init__ creates a
\* tracker and gives it to the chat model as its callback
\* (audio_agent.py:48-53)
HandleAudio(a) ==
  /\ ~agents[a].created
  /\ heap' = NewObject(heap)
  /\ agents' = [agents EXCEPT ![a] =
       [@ EXCEPT !.created = TRUE, !.cost_tracker = Len(heap'),
                 !.callbacks = Len(heap')]]
  /\ UNCHANGED << reports, pipelineVars, trkVars, moreVars >>

\* BeginRun with the tracker of the agent kept from run to run
BeginRun_NoReset(a) ==
  /\ agents[a].created
  /\ agents[a].pc = "idle"
  /\ agents[a].runs < MaxRuns
  /\ agents' = [agents EXCEPT ![a] = [@ EXCEPT !.pc = "running", !.made = 0]]
  /\ UNCHANGED << heap, reports, pipelineVars, trkVars, moreVars >>

\* audio_agent.py:161-164: process_transcription replaces the agent's
\* tracker, and the chat model's callback, by a new tracker
BeginRun(a) ==
  /\ agents[a].created
  /\ agents[a].pc = "idle"
  /\ agents[a].runs < MaxRuns
  /\ heap' = NewObject(heap)
  /\ agents' = [agents EXCEPT ![a] =
       [@ EXCEPT !.cost_tracker = Len(heap'), !.callbacks = Len(heap'),
                 !.pc = "running", !.made = 0]]
  /\ UNCHANGED << reports, pipelineVars, trkVars, moreVars >>

\* a provider call of the run: on_llm_start of the chat model's callback
\* counts it (cost_tracker.py:50)
ProviderCall(a) ==
  /\ agents[a].pc = "running"
  /\ agents[a].made < MaxCalls
  /\ heap' = [heap EXCEPT ![agents[a].callbacks] = @ + 1]
  /\ agents' = [agents EXCEPT ![a].made = @ + 1]
  /\ UNCHANGED << reports, pipelineVars, trkVars, moreVars >>

\* audio_agent.py:122 and :188-191: the report is taken from the agent's
\* tracker and returned
EndRun(a) ==
  /\ agents[a].pc = "running"
  /\ reports' = [reports EXCEPT ![a] =
       [calls |-> heap[agents[a].cost_tracker], made |-> agents[a].made]]
  /\ agents' = [agents EXCEPT ![a] = [@ EXCEPT !.pc = "idle", !.runs = @ + 1]]
  /\ UNCHANGED << heap, pipelineVars, trkVars, moreVars >>

NextAgents ==
  \/ \E a \in Agents : HandleAudio(a)
  \/ \E a \in Agents : BeginRun(a)
  \/ \E a \in Agents : ProviderCall(a)
  \/ \E a \in Agents : EndRun(a)

SpecAgents == InitAgents /\ [][NextAgents]_vars

\* ==================================================================
\* The workers' requests, in two runs side by side
\* ==================================================================
\* no run of the pipeline, no tracker event, no agent
PipelineIdle ==
  /\ PipelineInit
  /\ reports_usage = TRUE
  /\ trk = NewTracker(ModelName)
  /\ TrackerIdle
  /\ AgentsIdle

Transcriptions == {"t1", "t2"}

\* the sections a plan may have: Section(name, description)
\* (audio_agent.py:17-21)
SectionValues ==
  {[name |-> "n1", description |-> "d1"],
   [name |-> "n1", description |-> "d2"],
   [name |-> "n2", description |-> "d1"]}

\* the plans of one section or more
Plans == UNION {[1..n -> SectionValues] : n \in 1..MaxSections}

\* the content a worker's call returns
Outputs == {"o1"}

\* no request sent yet
NoRequest == [system |-> "none", human |-> << >>]

\* WorkerMessages with the outputs returned so far put into the request
WorkerMessages_SeesOutputs(state) ==
  [system |-> "Write a summary section",
   human |-> << state.section.name, state.section.description >>,
   context |-> worker_output]

\* audio_agent.py:83-92: the messages of a worker's request, a fixed system
\* message and a human message made of state['section'].name and
\* state['section'].description
WorkerMessages(state) ==
  [system |-> "Write a summary section",
   human |-> << state.section.name, state.section.description >>]

\* two runs of different transcriptions, each with the plan its planner
\* gave
InitWorkers ==
  /\ PipelineIdle
  /\ HandlerIdle
  /\ ServiceIdle
  /\ run_input \in [Runs -> [transcription : Transcriptions, sections : Plans]]
  /\ run_input[1].transcription = "t1"
  /\ run_input[2].transcription = "t2"
  /\ worker_state = [r \in Runs |-> << >>]
  /\ worker_request = [r \in Runs |-> << >>]
  /\ worker_output = [r \in Runs |-> << >>]

\* audio_agent.py:126-128: each Send starts a summarize_audio task whose
\* state is the Send's payload
RunAssignWorkers(r) ==
  /\ worker_state[r] = << >>
  /\ worker_state' = [worker_state EXCEPT ![r] = Sends(run_input[r].sections)]
  /\ worker_request' =
       [worker_request EXCEPT ![r] = [i \in 1..Len(run_input[r].sections) |-> NoRequest]]
  /\ worker_output' =
       [worker_output EXCEPT ![r] = [i \in 1..Len(run_input[r].sections) |-> "none"]]
  /\ UNCHANGED << run_input, pipelineVars, trkVars, agentVars, handlerVars, serviceVars >>

\* audio_agent.py:83: worker i of run r sends its request
WorkerSends(r, i) ==
  /\ i \in 1..Len(worker_state[r])
  /\ worker_request[r][i] = NoRequest
  /\ worker_request' = [worker_request EXCEPT ![r][i] = WorkerMessages(worker_state[r][i])]
  /\ UNCHANGED << run_input, worker_state, worker_output, pipelineVars, trkVars,
                  agentVars, handlerVars, serviceVars >>

\* audio_agent.py:93: the call of worker i of run r returns a content
WorkerAnswered(r, i) ==
  /\ i \in 1..Len(worker_state[r])
  /\ worker_request[r][i] # NoRequest
  /\ worker_output[r][i] = "none"
  /\ \E o \in Outputs : worker_output' = [worker_output EXCEPT ![r][i] = o]
  /\ UNCHANGED << run_input, worker_state, worker_request, pipelineVars, trkVars,
                  agentVars, handlerVars, serviceVars >>

NextWorkers ==
  \/ \E r \in Runs : RunAssignWorkers(r)
  \/ \E r \in Runs, i \in 1..MaxSections : WorkerSends(r, i)
  \/ \E r \in Runs, i \in 1..MaxSections : WorkerAnswered(r, i)

SpecWorkers == InitWorkers /\ [][NextWorkers]_vars

\* ==================================================================
\* OpenAIService and summarize_transcription
\* ==================================================================
ServiceOps == {"transcribe_audio", "generate_chat_completion", "summarize_transcription"}

\* what a call is given: audio bytes, or a transcription (the messages of a
\* chat completion are built from it)
ServiceInputs(op) ==
  IF op = "transcribe_audio"
    THEN {[kind |-> "audio", id |-> i] : i \in {"a1", "a2", "a3"}}
    ELSE {[kind |-> "text", id |-> i] : i \in {"t1", "t2", "t3"}}

\* how a request to the provider ends
ProviderOutcomes == {"ok", "OpenAIError", "Exception"}

\* Python's None
None == [kind |-> "None", id |-> "none"]

\* the method of OpenAIService a call runs
ServiceMethod(op) ==
  IF op = "summarize_transcription" THEN "generate_chat_completion" ELSE op

\* max_tries of the decorator of a method (openai_service.py:44-49, :96)
max_tries(method) ==
  IF method = "transcribe_audio" THEN transcribe_max_tries ELSE chat_max_tries

\* the body of transcribe_audio / generate_chat_completion for a request
\* that ended with outcome o: the result of the provider, or None from the
\* two except clauses (openai_service.py:89-94, :133-138); no exception
\* leaves the body
Body(method, input, o) ==
  IF o = "ok"
    THEN [raised |-> "None",
          value |-> [kind |-> IF method = "transcribe_audio" THEN "text" ELSE "completion",
                     id |-> input.id]]
    ELSE [raised |-> "None", value |-> None]

\* backoff.on_exception(backoff.expo, OpenAIError, max_tries=n): the call
\* is tried again when the body raised OpenAIError and fewer than n tries
\* were made
TriesAgain(method, body, tries) ==
  body.raised = "OpenAIError" /\ tries < max_tries(method)

\* summarize_transcription (transcription_processor.py:40-54): the summary
\* generate_chat_completion returned, the transcription if it raised
Summarized(transcription, body) ==
  IF body.raised # "None" THEN transcription ELSE body.value

InitService ==
  /\ PipelineIdle
  /\ WorkersIdle
  /\ HandlerIdle
  /\ ServiceIdle

\* a caller calls the service
ServiceCall(op) ==
  /\ svc.pc \in {"idle", "done"}
  /\ svc_done < MaxEvents
  /\ \E input \in ServiceInputs(op) :
       svc' = [NoCall EXCEPT !.op = op, !.pc = "try", !.input = input]
  /\ UNCHANGED << svc_done, registryVars, pipelineVars, trkVars, agentVars, workerVars,
                  handlerVars >>

\* one try of the decorated method: the request is sent and ends with
\* outcome o, the body returns or raises, the decorator tries again or lets
\* the result through, and summarize_transcription returns what it got
ServiceTry(o) ==
  /\ svc.pc = "try"
  /\ LET method == ServiceMethod(svc.op)
         body == Body(method, svc.input, o)
         tries == svc.tries + 1
         again == TriesAgain(method, body, tries)
     IN /\ svc' = [svc EXCEPT
               !.tries = tries,
               !.attempts = @ + 1,
               !.failure = IF o = "ok" THEN "None" ELSE o,
               !.pc = IF again THEN "try" ELSE "done",
               !.raised = IF again \/ svc.op = "summarize_transcription"
                            THEN "None" ELSE body.raised,
               !.ret = IF again THEN NoValue
                       ELSE IF svc.op = "summarize_transcription"
                         THEN Summarized(svc.input, body)
                       ELSE body.value]
        /\ svc_done' = IF again THEN svc_done ELSE svc_done + 1
  /\ UNCHANGED << registryVars, pipelineVars, trkVars, agentVars, workerVars, handlerVars >>

NextService ==
  \/ \E op \in ServiceOps : ServiceCall(op)
  \/ \E o \in ProviderOutcomes : ServiceTry(o)

SpecService == InitService /\ [][NextService]_vars

\* ==================================================================
\* The webhook: MessageHandler.handle_update and telegram_bot_function
\* ==================================================================
\* One update is handled per behaviour.  `log` is the sequence of what the
\* request did: gateway calls (send, edit) and the steps of the audio
\* processing.
Durations ==
  {0, documented_threshold, documented_threshold + 1, summarization_threshold,
   summarization_threshold + 1, max_audio_duration - 1, max_audio_duration,
   max_audio_duration + 1}

\* an update as the routing reads it: whether it is a system message, where
\* a bot_command entity stands among message["entities"], the text, and
\* whether "audio" and "voice" are keys of the message.  Entities come with
\* a text only; the duration is that of the audio, else of the voice
Updates ==
  {u \in [entry : {"handle_update", "telegram_bot_function"},
          system : BOOLEAN,
          command : {"none", "first", "later"},
          text : {"absent", "/start", "other"},
          audio : BOOLEAN,
          voice : BOOLEAN,
          duration : Durations] :
     /\ (u.command # "none" => u.text # "absent")
     /\ (~(u.audio \/ u.voice) => u.duration = 0)}

\* message ids the gateway hands out
MessageIds == {1, 2}

_is_system_message_Never(u) == FALSE

_is_system_message(u) == u.system

_get_message_type_TextFirst(message) ==
  IF message.text # "absent" THEN "text"
  ELSE IF message.command # "none" THEN "command"
  ELSE IF message.audio THEN "audio"
  ELSE IF message.voice THEN "voice"
  ELSE "unknown"

_get_message_type(message) ==
  IF message.command # "none" THEN "command"
  ELSE IF message.text # "absent" THEN "text"
  ELSE IF message.audio THEN "audio"
  ELSE IF message.voice THEN "voice"
  ELSE "unknown"

handlers ==
  [command |-> "handle_command", text |-> "handle_text", audio |-> "handle_audio",
   voice |-> "handle_audio", unknown |-> "handle_unknown"]

\* the branch telegram_bot_function takes, under the name of the handler
\* that does the same work in MessageHandler
Branch(message) ==
  IF message.command = "first" /\ message.text = "/start" THEN "handle_command"
  ELSE IF message.text # "absent" THEN "handle_text"
  ELSE IF message.audio \/ message.voice THEN "handle_audio"
  ELSE "handle_unknown"

\* duration < max_audio_duration
Accepted_Inclusive(u) == u.duration <= max_audio_duration

Accepted(u) == u.duration < max_audio_duration

\* duration > summarization_threshold in handle_audio, duration > 90 in
\* telegram_bot_function
Summarizes(u) ==
  IF u.entry = "handle_update" THEN u.duration > summarization_threshold
  ELSE u.duration > function_app_threshold

\* the messaging gateway (send returns the id of the new message)
send_message(message_id, text) ==
  [op |-> "send", id |-> message_id, text |-> text, result |-> "ok"]

edit_message_Resend(message_id, text) ==
  [op |-> "send", id |-> message_id, text |-> text, result |-> "ok"]

edit_message(message_id, text) ==
  [op |-> "edit", id |-> message_id, text |-> text, result |-> "ok"]

\* a step that is no gateway call
Step(op, res) == [op |-> op, id |-> 0, text |-> "none", result |-> res]

\* `transcription, language = value`: unpacking None raises TypeError
Unpacks_Lenient(value) == value.kind \in {"text", "None"}

Unpacks(value) == value.kind # "None"

\* the text of f"{value}"
Shown(value) == IF value.kind = "None" THEN "None" ELSE "summary"

HandlerFrame == UNCHANGED << pipelineVars, trkVars, agentVars, workerVars, serviceVars >>

InitHandler ==
  /\ PipelineIdle
  /\ WorkersIdle
  /\ ServiceIdle
  /\ update \in Updates
  /\ hpc = "start"
  /\ handler = << >>
  /\ log = << >>
  /\ bot_message_id = 0
  /\ http_status = 0

\* return func.HttpResponse(..., status_code=status)
Respond(status) == http_status' = status /\ hpc' = "done"

IgnoreSystem ==
  /\ hpc = "start"
  /\ _is_system_message(update)
  /\ Respond(200)
  /\ UNCHANGED << update, handler, log, bot_message_id >>
  /\ HandlerFrame

handle_update ==
  /\ hpc = "start"
  /\ update.entry = "handle_update"
  /\ ~_is_system_message(update)
  /\ handler' = Append(handler, handlers[_get_message_type(update)])
  /\ hpc' = handlers[_get_message_type(update)]
  /\ UNCHANGED << update, log, bot_message_id, http_status >>
  /\ HandlerFrame

telegram_bot_function ==
  /\ hpc = "start"
  /\ update.entry = "telegram_bot_function"
  /\ ~_is_system_message(update)
  /\ handler' = Append(handler, Branch(update))
  /\ hpc' = Branch(update)
  /\ UNCHANGED << update, log, bot_message_id, http_status >>
  /\ HandlerFrame

\* the status of the response after the start command returned something
\* true ("ok"), something false ("None") or raised: handle_command builds
\* the response of a failure without status_code, which gives status 200,
\* and an exception reaches the except clause of handle_update
CommandStatus(entry, o) ==
  IF o = "raises" THEN 500
  ELSE IF o = "ok" \/ entry = "handle_update" THEN 200
  ELSE 500

handle_command(o) ==
  /\ hpc = "handle_command"
  /\ log' = Append(log, Step("start_command", o))
  /\ Respond(CommandStatus(update.entry, o))
  /\ UNCHANGED << update, handler, bot_message_id >>
  /\ HandlerFrame

\* MessageHandler.handle_text: one chat completion, and what it returned is
\* given to send_message, None included; with None as text the gateway
\* returns or raises
handle_text(o) ==
  /\ hpc = "handle_text"
  /\ update.entry = "handle_update"
  /\ LET response == Body("generate_chat_completion", [kind |-> "text", id |-> "t1"], o).value
         chat == Step("chat", IF o = "ok" THEN "ok" ELSE "None")
     IN \E m \in MessageIds :
          \/ /\ log' = log \o << chat, send_message(m, IF response.kind = "None"
                                                          THEN "None" ELSE "reply") >>
             /\ Respond(200)
          \/ /\ response.kind = "None"
             /\ log' = log \o << chat, [send_message(m, "None") EXCEPT !.result = "raises"] >>
             /\ Respond(500)
  /\ UNCHANGED << update, handler, bot_message_id >>
  /\ HandlerFrame

\* telegram_bot_function echoes a text
EchoText ==
  /\ hpc = "handle_text"
  /\ update.entry = "telegram_bot_function"
  /\ \E m \in MessageIds : log' = Append(log, send_message(m, "echo"))
  /\ Respond(200)
  /\ UNCHANGED << update, handler, bot_message_id >>
  /\ HandlerFrame

\* handle_unknown calls send_message without awaiting it: nothing is sent
handle_unknown ==
  /\ hpc = "handle_unknown"
  /\ Respond(200)
  /\ UNCHANGED << update, handler, log, bot_message_id >>
  /\ HandlerFrame

\* the duration test and the first message
AudioGate ==
  /\ hpc = "handle_audio"
  /\ \E m \in MessageIds :
       IF Accepted(update)
         THEN /\ log' = Append(log, send_message(m, "progress"))
              /\ bot_message_id' = IF update.entry = "handle_update" THEN m ELSE bot_message_id
              /\ hpc' = "download"
              /\ UNCHANGED http_status
         ELSE /\ log' = Append(log, send_message(m, "rejection"))
              /\ Respond(200)
              /\ UNCHANGED bot_message_id
  /\ UNCHANGED << update, handler >>
  /\ HandlerFrame

\* process_audio_message returned None and the caller unpacks it
ProcessReturnsNone ==
  IF Unpacks(None) THEN hpc' = "transcribed" /\ UNCHANGED http_status ELSE Respond(500)

\* download_telegram_file: the file (m4a or not), no data, or no file path
Download(o) ==
  /\ hpc = "download"
  /\ log' = Append(log, Step("download", IF o \in {"m4a", "other"} THEN "ok" ELSE o))
  /\ CASE o = "m4a" -> hpc' = "transcribe" /\ UNCHANGED http_status
       [] o = "other" -> hpc' = "convert" /\ UNCHANGED http_status
       [] o = "None" -> ProcessReturnsNone
       [] o = "raises" -> Respond(500)
  /\ UNCHANGED << update, handler, bot_message_id >>
  /\ HandlerFrame

\* convert_to_m4a; on an exception process_audio_message returns None
Convert(converted) ==
  /\ hpc = "convert"
  /\ log' = Append(log, Step("convert", IF converted THEN "ok" ELSE "None"))
  /\ IF converted THEN hpc' = "transcribe" /\ UNCHANGED http_status
     ELSE ProcessReturnsNone
  /\ UNCHANGED << update, handler, bot_message_id >>
  /\ HandlerFrame

\* transcribe_audio and the unpacking of what it returned
Transcribe(o) ==
  /\ hpc = "transcribe"
  /\ LET value == Body("transcribe_audio", [kind |-> "audio", id |-> "a1"], o).value
     IN /\ log' = Append(log, Step("transcribe", IF value.kind = "None" THEN "None" ELSE "ok"))
        /\ IF Unpacks(value) THEN hpc' = "transcribed" /\ UNCHANGED http_status
           ELSE Respond(500)
  /\ UNCHANGED << update, handler, bot_message_id >>
  /\ HandlerFrame

\* handle_audio, duration > summarization_threshold: the second status
Summarizing ==
  /\ hpc = "transcribed"
  /\ update.entry = "handle_update"
  /\ Summarizes(update)
  /\ log' = Append(log, edit_message(bot_message_id, "summarizing"))
  /\ hpc' = "run"
  /\ UNCHANGED << update, handler, bot_message_id, http_status >>
  /\ HandlerFrame

RunPipeline_DeliversAnyway(o) ==
  /\ hpc = "run"
  /\ log' = log \o << Step("run", o), edit_message(bot_message_id, "summary") >>
  /\ Respond(IF o = "ok" THEN 200 ELSE 500)
  /\ UNCHANGED << update, handler, bot_message_id >>
  /\ HandlerFrame

\* AudioAgent(...).process_transcription and the edit that carries the
\* summary; an exception of the run ends the request with 500
RunPipeline(o) ==
  /\ hpc = "run"
  /\ IF o = "ok"
       THEN /\ log' = log \o << Step("run", o), edit_message(bot_message_id, "summary") >>
            /\ Respond(200)
       ELSE /\ log' = Append(log, Step("run", o))
            /\ Respond(500)
  /\ UNCHANGED << update, handler, bot_message_id >>
  /\ HandlerFrame

\* telegram_bot_function, duration > 90: summarize_transcription and the
\* message that carries what it returned
SummarizeAndSend(o) ==
  /\ hpc = "transcribed"
  /\ update.entry = "telegram_bot_function"
  /\ Summarizes(update)
  /\ LET input == [kind |-> "text", id |-> "t1"]
         final == Summarized(input, Body("generate_chat_completion", input, o))
     IN \E m \in MessageIds :
          log' = log \o << Step("summarize", IF o = "ok" THEN "ok" ELSE "None"),
                           send_message(m, Shown(final)) >>
  /\ Respond(200)
  /\ UNCHANGED << update, handler, bot_message_id >>
  /\ HandlerFrame

\* the plain transcription: an edit in handle_audio, a new message in
\* telegram_bot_function
SendTranscription ==
  /\ hpc = "transcribed"
  /\ ~Summarizes(update)
  /\ IF update.entry = "handle_update"
       THEN log' = Append(log, edit_message(bot_message_id, "transcription"))
       ELSE \E m \in MessageIds : log' = Append(log, send_message(m, "transcription"))
  /\ Respond(200)
  /\ UNCHANGED << update, handler, bot_message_id >>
  /\ HandlerFrame

NextHandler ==
  \/ IgnoreSystem
  \/ handle_update
  \/ telegram_bot_function
  \/ \E o \in {"ok", "None", "raises"} : handle_command(o)
  \/ \E o \in ProviderOutcomes : handle_text(o)
  \/ EchoText
  \/ handle_unknown
  \/ AudioGate
  \/ \E o \in {"m4a", "other", "None", "raises"} : Download(o)
  \/ \E converted \in BOOLEAN : Convert(converted)
  \/ \E o \in ProviderOutcomes : Transcribe(o)
  \/ Summarizing
  \/ \E o \in {"ok", "raises"} : RunPipeline(o)
  \/ \E o \in ProviderOutcomes : SummarizeAndSend(o)
  \/ SendTranscription

SpecHandler == InitHandler /\ [][NextHandler]_vars

\* ==================================================================
\* CommandRegistry (src/commands/command_registry.py)
\* ==================================================================
\* A command name is the sequence of its characters.
CommandNames == {<< "s" >>, << "/", "s" >>, << "h" >>, << "/", "h" >>}

HelpTexts == {"help1", "help2"}

\* command_name.startswith("/")
startswith_slash(command_name) == Len(command_name) > 0 /\ command_name[1] = "/"

\* the key register files a command under
RegisterKey(command_name) ==
  IF ~startswith_slash(command_name) THEN << "/" >> \o command_name ELSE command_name

\* the dataclass Command
Command(help_text) == [handler |-> "handler", description |-> "description",
                       help_text |-> help_text]

\* self._commands.get(command_name), then command.help_text or None
CommandHelp(commands, command_name) ==
  IF command_name \in DOMAIN commands THEN commands[command_name].help_text ELSE "None"

InitRegistry ==
  /\ PipelineIdle
  /\ WorkersIdle
  /\ HandlerIdle
  /\ svc = NoCall
  /\ svc_done = 0
  /\ RegistryIdle

RegistryFrame ==
  UNCHANGED << svc, svc_done, pipelineVars, trkVars, agentVars, workerVars, handlerVars >>

register(command_name, help_text) ==
  /\ Len(registrations) < MaxRegistrations
  /\ _commands' = [k \in DOMAIN _commands \cup {RegisterKey(command_name)} |->
                     IF k = RegisterKey(command_name) THEN Command(help_text)
                     ELSE _commands[k]]
  /\ registrations' = Append(registrations, [name |-> command_name, help_text |-> help_text])
  /\ answer' = NoAnswer
  /\ RegistryFrame

get_command_help(command_name) ==
  /\ answer' = [name |-> command_name, ret |-> CommandHelp(_commands, command_name)]
  /\ UNCHANGED << _commands, registrations >>
  /\ RegistryFrame

NextRegistry ==
  \/ \E command_name \in CommandNames, help_text \in HelpTexts :
       register(command_name, help_text)
  \/ \E command_name \in CommandNames : get_command_help(command_name)

SpecRegistry == InitRegistry /\ [][NextRegistry]_vars

\* ==================================================================
\* The claims
\* ==================================================================
\* the sum of a field over the node records
NodeSum(tr, fld) ==
  tr.node_costs["orchestrator"][fld] + tr.node_costs["summarize_audio"][fld]
    + tr.node_costs["synthesizer"][fld]

\* no task is inside a callback of the tracker
Quiescent == \A t \in Tasks : ~Inside(pc[t], ix[t])

UnderBudget == JoinLen(synth_input) <= telegram_len_limit

\* C1: order preservation.  Whatever the order in which the workers finish,
\* the list the synthesizer joins holds the summary of section i at
\* position i, for every section of the plan.
C1_OrderPreserved ==
  synth_runs > 0 =>
    /\ Len(synth_input) = Len(sections)
    /\ \A i \in 1..Len(sections) : synth_input[i].src = sections[i]

\* C1 witness: the synthesizer has read its input after the workers of a
\* plan of two or more sections finished out of order.
C1_Witness == synth_runs > 0 /\ NumWorkers >= 2 /\ reordered

\* C2: fan-in completeness.  While the synthesizer runs (and after), no
\* dispatched worker is pending.
C2_FanInComplete ==
  (stage = "SYNTHESIZING" \/ pc[SynTask] # "idle") =>
    /\ NumWorkers >= 1
    /\ \A t \in Dispatched : Resolved(t)

\* C2 witness: the synthesizer runs in a run of two or more workers.
C2_Witness == stage = "SYNTHESIZING" /\ pc[SynTask] = "request" /\ NumWorkers >= 2

\* C3: cost accounting.  Whenever no callback is in progress, the costs of
\* the node records add up to the tracker's total cost.
C3_CostSum == Quiescent => NodeSum(tracker, "cost") = tracker.total_cost

\* C4: budget respect.  A run that ends with a concatenation within the
\* limit made no synthesizer request and returns the concatenation.
C4_UnderBudgetNoCall ==
  (stage = "DONE" /\ UnderBudget) =>
    /\ requests[SynTask] = 0
    /\ result.summary = Joined(synth_input)

\* C5: budget violation.  A run that ends with a concatenation over the
\* limit made exactly one synthesizer request, and the cost report has it
\* under the synthesizer node.
C5_OneCallUnderSynthesizer ==
  (stage = "DONE" /\ ~UnderBudget) =>
    /\ requests[SynTask] = 1
    /\ "synthesizer" \in DOMAIN result.cost_summary.cost_per_node
    /\ result.cost_summary.cost_per_node["synthesizer"].calls = 1

\* C6: call count.  A run that ends with a concatenation within the limit
\* reports 1 + N calls.
C6_CallCount ==
  (stage = "DONE" /\ UnderBudget) => result.cost_summary.calls = 1 + NumWorkers

\* the stages of a run, in order
StageOrder == << "START", "PLANNING", "FANOUT", "FANIN", "SYNTHESIZING", "DONE" >>

IsPrefix(s, t) == Len(s) <= Len(t) /\ SubSeq(t, 1, Len(s)) = s

\* C7: stage order.  The stages a run has entered are a prefix of START,
\* PLANNING, FANOUT, FANIN, SYNTHESIZING, DONE (each entered once, none
\* skipped, none entered again), followed by the error exit if the run
\* failed; a run that is done has entered them all.
C7_StageOrder ==
  /\ visited[Len(visited)] = stage
  /\ IsPrefix(IF stage = "FAILED" THEN SubSeq(visited, 1, Len(visited) - 1)
                                  ELSE visited, StageOrder)
  /\ stage = "DONE" => visited = StageOrder

\* C7 witness: a run of two workers is done.
C7_Witness == stage = "DONE" /\ NumWorkers >= 2 /\ result.status = "ok"

\* the planner's request failed, or its response matched no schema
PlanningFailed == call_failed[0] \/ resp[0].content = -1

\* C8: planning failure is fatal.  After it no worker is dispatched, the
\* synthesizer does not run, the run can only end in an error and
\* process_transcription returns no summary.
C8_PlanningFatal ==
  PlanningFailed =>
    /\ \A t \in Workers : pc[t] = "idle" /\ requests[t] = 0
    /\ pc[SynTask] = "idle" /\ synth_runs = 0
    /\ stage \in {"PLANNING", "FAILED"}
    /\ (stage = "PLANNING" /\ pc[0] = "failed") => ENABLED PlanningFails
    /\ stage = "FAILED" => result = ErrorResult
    /\ result.status # "ok" /\ result.summary = MissingText

\* C8 witness: the run has failed on a response that matched no schema.
C8_Witness == stage = "FAILED" /\ resp[0].content = -1 /\ result.status = "error"

\* C9: a worker's failure is not swallowed.  A worker whose request failed
\* returns no text (no empty summary), its run never passes the fan-in and
\* never gives a summary: the failure is propagated, for every worker.
C9_WorkerFailurePropagated ==
  \A t \in Workers :
    call_failed[t] =>
      /\ pc[t] = "failed"
      /\ writes[t] = << >>
      /\ \A i \in 1..Len(completed_sections) : completed_sections[i].src # t
      /\ stage \in {"FANOUT", "FAILED"}
      /\ result.status # "ok" /\ result.summary = MissingText

\* C9 witness: a run failed with one worker's request failed and another
\* worker's summary returned.
C9_Witness ==
  /\ stage = "FAILED"
  /\ \E t \in Dispatched : call_failed[t]
  /\ \E t \in Dispatched : pc[t] = "done"

\* some, not all, workers of the superstep failed
PartialFailure ==
  /\ BarrierReached
  /\ \E t \in Dispatched : pc[t] = "failed"
  /\ \E t \in Dispatched : pc[t] = "done"

\* C10 as stated: a run in which some but not all workers failed does not
\* abort with an error.
C10_PartialRecoverable == PartialFailure => result.status # "error"

\* C10 as amended: a run in which some but not all workers failed can only
\* abort: it never passes the fan-in, and once the superstep is over the
\* error exit is its only step.
C10_PartialFailureAborts ==
  PartialFailure =>
    /\ stage \in {"FANOUT", "FAILED"}
    /\ stage = "FANOUT" => (ENABLED WorkersFail /\ ~ENABLED FanIn)
    /\ stage = "FAILED" => result = ErrorResult

\* C10 witness: a run has aborted after one worker failed and another
\* returned.
C10_Witness == PartialFailure /\ stage = "FAILED" /\ result = ErrorResult

\* a text of no character
EmptyText(t) == t # MissingText /\ t.len = 0

\* C11: zero sections.  A run whose plan has no section ends with a result
\* whose summary is the empty string and whose cost report is there, or
\* with the planning failure; the state it ends with has a summary and a
\* cost report unless it failed.
C11_ZeroSectionsDefined ==
  (resp[0].content = 0 /\ stage \in {"DONE", "FAILED"}) =>
    \/ /\ result.status = "ok"
       /\ EmptyText(result.summary)
       /\ result.cost_summary # NoSummary
    \/ result = ErrorResult

\* the token usage of an answered call: the usage every response reports,
\* or none when the provider reports none
CallUsage ==
  IF reports_usage THEN CHOOSE u \in Usages : TRUE ELSE [p |-> 0, c |-> 0]

\* C12: no lost update in the worker record.  At the fan-in, whatever the
\* interleaving of the workers, the record of the worker node has one call
\* per worker and the token counts of all the workers' calls.
C12_NoLostUpdate ==
  stage = "FANIN" =>
    LET rec == tracker.node_costs["summarize_audio"] IN
      /\ rec.present
      /\ rec.calls = NumWorkers
      /\ rec.prompt_tokens = NumWorkers * CallUsage.p
      /\ rec.completion_tokens = NumWorkers * CallUsage.c
      /\ rec.total_tokens = NumWorkers * (CallUsage.p + CallUsage.c)

\* the requests of the run that were sent, and those that failed
RECURSIVE SumOver(_, _)
SumOver(f, S) ==
  IF S = {} THEN 0
  ELSE LET x == CHOOSE y \in S : TRUE IN f[x] + SumOver(f, S \ {x})

CallsMade == SumOver(requests, Tasks)
CallsFailed == Cardinality({t \in Tasks : call_failed[t]})

\* every call the tracker counts has contributed its tokens and its cost
AccountedWhole ==
  /\ tracker.prompt_tokens = tracker.calls * CallUsage.p
  /\ tracker.completion_tokens = tracker.calls * CallUsage.c
  /\ tracker.total_cost = tracker.calls * call_cost(tracker.model_name, CallUsage)

\* a run is over and none of its callbacks was preempted
EndedSequential == stage \in {"DONE", "FAILED"} /\ preempts = 0

\* C13: all-or-nothing accounting per worker.  At the end of a run in which
\* a worker's call failed after it started (no callback preempted, the
\* provider reporting usage), the tracker shows the failed call whole or
\* not at all: every call it counts has contributed tokens and cost.
C13_AllOrNothing ==
  (EndedSequential /\ reports_usage /\ \E t \in Workers : call_failed[t]) =>
    AccountedWhole

\* the same for the runs in which no request failed (it holds: the partial
\* records come from the failed calls alone)
C13_AnsweredCallsWhole ==
  (EndedSequential /\ reports_usage /\ CallsFailed = 0) => AccountedWhole

\* C14: planner accounting.  A run sends at most one planner request; once
\* the planning stage is over exactly one was sent, and from then on the
\* record of the planner's node counts exactly one call.
C14_PlannerOnce ==
  /\ requests[0] <= 1
  /\ stage \notin {"START", "PLANNING"} =>
       /\ requests[0] = 1
       /\ tracker.node_costs["orchestrator"].present
       /\ tracker.node_costs["orchestrator"].calls = 1

\* C14 witness: a run of two workers is done, all its calls made, and the
\* planner's record counts one call.
C14_Witness ==
  /\ stage = "DONE"
  /\ NumWorkers >= 2
  /\ CallsMade = NumWorkers + 2
  /\ tracker.node_costs["orchestrator"].calls = 1

\* the worker tasks that were started
Started == {t \in Workers : pc[t] # "idle"}

\* C15: fan-out arity.  As many worker tasks are started as the plan has
\* sections, every section of the plan is the input of exactly one of them,
\* and a worker sends one request: none before its call, one once it has
\* resolved, never more.
C15_FanOutArity ==
  /\ Cardinality(Started) = Len(sections)
  /\ \A i \in 1..Len(sections) :
       Cardinality({t \in Started : worker_section[t] = sections[i]}) = 1
  /\ \A t \in Workers :
       /\ requests[t] <= 1
       /\ t \notin Started => requests[t] = 0
       /\ Resolved(t) => requests[t] = 1

\* C15 witness: the workers of a plan of two sections have all resolved,
\* each with its own section.
C15_Witness ==
  /\ stage = "FANIN"
  /\ Len(sections) = 2
  /\ worker_section[1] # worker_section[2]
  /\ \A t \in Dispatched : requests[t] = 1

\* the report counts every call of the run and the tokens of every call
ReportComplete(rep) ==
  /\ rep.calls = CallsMade
  /\ rep.prompt_tokens = (CallsMade - CallsFailed) * CallUsage.p
  /\ rep.completion_tokens = (CallsMade - CallsFailed) * CallUsage.c
  /\ rep.total_tokens = (CallsMade - CallsFailed) * (CallUsage.p + CallUsage.c)

\* C16: the final report is complete.  The cost report a run returns counts
\* every provider call started in the run (planner, workers, synthesizer)
\* and the tokens of every completed call.
C16_ReportComplete ==
  stage = "DONE" => ReportComplete(result.cost_summary)

\* the same for the runs in which no callback was preempted (it holds: the
\* report is taken after the last call, all that is missing was lost in
\* the workers' concurrent updates)
C16_SequentialReportComplete ==
  (stage = "DONE" /\ preempts = 0) => ReportComplete(result.cost_summary)

\* the rates of a tracker: those of the pricing table for its model, the
\* fallback rates for a model that is not in the table
Rates(tr) ==
  IF tr.model_name \in DOMAIN pricing THEN pricing[tr.model_name]
  ELSE DefaultPricing

\* what a step adds to the cost, by the formula, for the tokens it adds
FormulaCost(old, new) ==
  (new.prompt_tokens - old.prompt_tokens) * Rates(old).prompt
    + (new.completion_tokens - old.completion_tokens) * Rates(old).completion

\* C18: cost formula.  Every event of the tracker adds to the total cost
\* prompt tokens x prompt rate + completion tokens x completion rate, for
\* the tokens it adds and the rates of the tracker's model (per token, the
\* rates being per 1000); it adds the same to the cost of the current
\* node, and nothing to any other node.
C18_CostFormula ==
  [][ /\ trk'.total_cost = trk.total_cost + FormulaCost(trk, trk')
      /\ \A n \in NodeNames :
           trk'.node_costs[n].cost =
             trk.node_costs[n].cost
               + (IF n = trk.current_node THEN FormulaCost(trk, trk') ELSE 0)
    ]_vars

\* C18 witness: a tracker for gpt-4 has accounted a call of 2 prompt and
\* 1000 completion tokens, globally and under the worker node.
C18_Witness ==
  /\ trk.model_name = "gpt-4"
  /\ trk.prompt_tokens = 2 /\ trk.completion_tokens = 1000
  /\ trk.total_cost = 2 * 75 + 1000 * 450
  /\ trk.node_costs["summarize_audio"].cost = trk.total_cost

\* C19: unknown model fallback.  A tracker for a model that is not in the
\* pricing table has rates that are not lower than those of any model of
\* the table.
C19_ConservativeFallback ==
  trk.model_name \notin DOMAIN pricing =>
    \A m \in DOMAIN pricing :
      /\ model_pricing(trk.model_name).prompt >= pricing[m].prompt
      /\ model_pricing(trk.model_name).completion >= pricing[m].completion

\* creating a tracker for a model that is not in the table does not fail
\* (it holds): the tracker is there, with the fallback rates
C19_UnknownModelCreated ==
  trk.model_name \notin DOMAIN pricing =>
    model_pricing(trk.model_name) = DefaultPricing

\* C20: the tracker never raises, whatever the sequence of events and the
\* shape of the responses.
C20_NeverRaises == trk_raised = "None"

\* C17: run isolation.  Two agents never have the same tracker; while a run
\* is on, its agent's tracker counts the calls of that run and no other;
\* and the report of a run counts the calls of that run alone, whether the
\* run came after another run on its agent or was interleaved with the run
\* of another agent.
C17_RunIsolation ==
  /\ \A a, b \in Agents :
       (a # b /\ agents[a].created /\ agents[b].created) =>
         /\ agents[a].cost_tracker # agents[b].cost_tracker
         /\ agents[a].callbacks # agents[b].callbacks
  /\ \A a \in Agents :
       agents[a].pc = "running" =>
         /\ agents[a].callbacks = agents[a].cost_tracker
         /\ heap[agents[a].cost_tracker] = agents[a].made
  /\ \A a \in Agents : reports[a].calls = reports[a].made

\* C17 witness: an agent has reported its second run, of two calls, while
\* the run of the other agent, with a call made, is still on.
C17_Witness ==
  /\ agents[1].runs = 2 /\ agents[1].pc = "idle"
  /\ reports[1].made = 2 /\ reports[1].calls = 2
  /\ agents[2].pc = "running" /\ agents[2].made >= 1

\* the text the compression call gave is still over the limit
Overflow(t) == t # MissingText /\ t.len > telegram_len_limit

\* C22: synthesis overflow is flagged.  A run that is done with a summary
\* still over the limit gives its caller, with the summary, something that
\* tells it from a summary within the limit: a warning entry in the
\* returned dict, or a status other than plain success.
C22_OverflowFlagged ==
  (stage = "DONE" /\ Overflow(result.summary)) =>
    \/ "warning" \in DOMAIN result
    \/ result.status # "ok"

\* the overflow is not fatal (it holds): the synthesizer having returned an
\* over-length text, the run can finish, and a run that is done with one
\* has returned it
C22_OverflowNotFatal ==
  /\ (stage = "SYNTHESIZING" /\ pc[SynTask] = "done" /\ Overflow(final_summary))
       => ENABLED Finish
  /\ (stage = "DONE" /\ Overflow(final_summary)) =>
       (result.status = "ok" /\ result.summary = final_summary)

\* worker i of run r has sent its request
Sent(r, i) == i \in 1..Len(worker_request[r]) /\ worker_request[r][i] # NoRequest

\* C21: worker isolation.  A worker is given its section and nothing else;
\* the request it sends is made of the name and the description of that
\* section alone; and two workers, of one run or of two runs with other
\* transcriptions and other sections, that have the same section have sent
\* the same request, whatever the other workers returned before.
C21_WorkerIsolation ==
  /\ \A r \in Runs : \A i \in 1..Len(worker_state[r]) :
       /\ DOMAIN worker_state[r][i] = {"section"}
       /\ worker_state[r][i].section = run_input[r].sections[i]
  /\ \A r \in Runs : \A i \in 1..Len(worker_request[r]) :
       Sent(r, i) =>
         worker_request[r][i].human =
           << run_input[r].sections[i].name, run_input[r].sections[i].description >>
  /\ \A r1, r2 \in Runs :
       \A i \in 1..Len(worker_request[r1]) : \A j \in 1..Len(worker_request[r2]) :
         (/\ Sent(r1, i) /\ Sent(r2, j)
          /\ run_input[r1].sections[i] = run_input[r2].sections[j])
           => worker_request[r1][i] = worker_request[r2][j]

\* C21 witness: two runs with different transcriptions have a section in
\* common and differ in their other section; the workers of the common
\* section have both sent their request, the one of run 2 after another
\* worker's call returned.
C21_Witness ==
  /\ run_input[1].transcription # run_input[2].transcription
  /\ Len(run_input[1].sections) = 2 /\ Len(run_input[2].sections) = 2
  /\ run_input[1].sections[1] = run_input[2].sections[2]
  /\ run_input[1].sections[2] # run_input[2].sections[1]
  /\ Sent(1, 1) /\ Sent(2, 2)
  /\ Len(worker_output[2]) = 2 /\ worker_output[2][1] # "none"
  /\ worker_output[1][1] = "none"

\* the request went to the audio handling
AudioRequest == handler = << "handle_audio" >>

\* the request is in MessageHandler.handle_audio
InHandleAudio == update.entry = "handle_update" /\ AudioRequest

Gateway(e) == e.op \in {"send", "edit"}

\* the positions of the log where the gateway was given a text of kind k
Deliveries(k) == {i \in DOMAIN log : Gateway(log[i]) /\ log[i].text = k}

\* the positions of the log where a step of the kinds ops was taken
Steps(ops) == {i \in DOMAIN log : log[i].op \in ops}

RunFailed == \E i \in Steps({"run"}) : log[i].result = "raises"

\* C23: at-most-once delivery.  The summary of an audio message is handed
\* to the gateway at most once, and not at all when the pipeline run failed.
C23_AtMostOnce ==
  /\ Cardinality(Deliveries("summary")) <= 1
  /\ RunFailed => Deliveries("summary") = {}

C23_Witness == InHandleAudio /\ RunFailed /\ hpc = "done" /\ http_status = 500

\* the handler the precedence command > text > audio > voice > unknown names
ByPrecedence(u) ==
  IF u.command # "none" THEN "handle_command"
  ELSE IF u.text # "absent" THEN "handle_text"
  ELSE IF u.audio \/ u.voice THEN "handle_audio"
  ELSE "handle_unknown"

\* C25: message routing.  handle_update dispatches a non-system update to
\* exactly one handler, chosen by command > text > audio > voice > unknown
\* (audio and voice share the audio handler); a system update to none.
C25_Routing ==
  update.entry = "handle_update" =>
    /\ (hpc # "start" /\ ~update.system) => handler = << ByPrecedence(update) >>
    /\ (hpc = "start" \/ update.system) => handler = << >>

C25_Witness ==
  /\ update.entry = "handle_update"
  /\ update.command = "later" /\ update.text = "other" /\ update.audio
  /\ handler = << "handle_command" >>
  /\ hpc = "done"

\* a summarization was made for the request
SummarizationMade == Steps({"run", "summarize"}) # {}

\* the request was accepted and answered with 200
AudioAnswered ==
  AudioRequest /\ hpc = "done" /\ http_status = 200 /\ Accepted(update)

\* C26: summarization threshold as documented.  An accepted audio is
\* summarized if and only if it is longer than 90 seconds.
C26_DocumentedThreshold ==
  AudioAnswered => (SummarizationMade <=> update.duration > documented_threshold)

\* telegram_bot_function keeps the documented threshold, and in handle_audio
\* no audio of 90 seconds or less is summarized
C26_ShortIsPlain ==
  AudioAnswered =>
    /\ update.entry = "telegram_bot_function" =>
         (SummarizationMade <=> update.duration > documented_threshold)
    /\ update.duration <= documented_threshold =>
         (~SummarizationMade /\ Deliveries("transcription") # {})

\* C27: duration gate.  An audio or voice message of 600 seconds or more is
\* never downloaded, transcribed or summarized; its only gateway action is
\* one rejection message and the answer is 200.
C27_DurationGate ==
  ((update.audio \/ update.voice) /\ update.duration >= max_audio_duration) =>
    /\ Steps({"download", "convert", "transcribe", "run", "summarize"}) = {}
    /\ AudioRequest =>
         IF hpc = "done"
           THEN /\ Len(log) = 1
                /\ log[1].op = "send" /\ log[1].text = "rejection"
                /\ http_status = 200
           ELSE log = << >>

C27_Witness ==
  /\ AudioRequest
  /\ update.duration = max_audio_duration
  /\ hpc = "done"
  /\ Deliveries("rejection") # {}

\* the positions of the log where a result was handed to the gateway
Results == Deliveries("summary") \cup Deliveries("transcription")

\* C28: progress-message protocol of handle_audio.  The status message is
\* sent before the transcription starts, every later gateway action edits
\* the message that send returned, a successful request ends with exactly
\* one edit that carries the result, and the "Summarizing..." edit comes
\* before the pipeline run.
C28_ProgressProtocol ==
  (InHandleAudio /\ Accepted(update) /\ log # << >>) =>
    /\ log[1] = send_message(bot_message_id, "progress")
    /\ \A i \in DOMAIN log :
         (i > 1 /\ Gateway(log[i])) => (log[i].op = "edit" /\ log[i].id = log[1].id)
    /\ (hpc = "done" /\ http_status = 200) =>
         (Cardinality(Results) = 1 /\ Len(log) \in Results)
    /\ \A i \in Steps({"run"}) :
         \E j \in Deliveries("summarizing") : j < i
    /\ \A j \in Deliveries("summarizing") : \A i \in Steps({"run"}) : j < i

C28_Witness ==
  /\ InHandleAudio
  /\ hpc = "done" /\ http_status = 200
  /\ Deliveries("summarizing") # {}
  /\ Deliveries("summary") # {}

\* a step of process_audio_message failed
ProcessFailed ==
  \E i \in Steps({"download", "convert", "transcribe"}) : log[i].result # "ok"

\* C29: transcription failure handling.  When the download, the conversion
\* or the transcription fails, handle_audio answers 500, starts no
\* summarization run and sends no result; the progress message stays as sent.
C29_TranscriptionFailure ==
  (InHandleAudio /\ ProcessFailed) =>
    /\ hpc = "done" /\ http_status = 500
    /\ ~SummarizationMade
    /\ Results = {}
    /\ \A i \in DOMAIN log : Gateway(log[i]) => (i = 1 /\ log[i].text = "progress")

C29_Witness ==
  /\ InHandleAudio
  /\ \E i \in Steps({"transcribe"}) : log[i].result = "None"
  /\ hpc = "done"

\* an exception was raised inside the handling of the request
HandlerRaised ==
  \/ RunFailed
  \/ ProcessFailed
  \/ \E i \in Steps({"start_command", "send"}) : log[i].result = "raises"

\* C31: the webhook always answers.  A request gets exactly one response
\* and nothing runs after it; an exception inside a handler gives status
\* 500; a system update gives 200 with no handler and no gateway call.
C31_AlwaysAnswers ==
  /\ hpc # "done" => http_status = 0
  /\ hpc = "done" => (http_status \in {200, 500} /\ ~ENABLED NextHandler)
  /\ hpc \notin {"idle", "done"} => ENABLED NextHandler
  /\ HandlerRaised => (hpc = "done" /\ http_status = 500)
  /\ (update.system /\ hpc # "idle") => (handler = << >> /\ log = << >>)
  /\ (update.system /\ hpc = "done") => http_status = 200

C31_Witness ==
  /\ update.entry = "handle_update"
  /\ update.system /\ (update.audio \/ update.text # "absent")
  /\ hpc = "done"
  /\ http_status = 200

\* the start command reported a failure
StartFailed == \E i \in Steps({"start_command"}) : log[i].result = "None"

\* C32: failed start command.  When the start command returns a falsy
\* value the response has status 500, in both entry points.
C32_FailedStartIs500 == StartFailed => http_status = 500

\* the half of C32 that holds: telegram_bot_function answers 500
C32_FunctionAppIs500 ==
  (StartFailed /\ update.entry = "telegram_bot_function") => http_status = 500

\* the chat completion of handle_text failed
ChatFailed == \E i \in Steps({"chat"}) : log[i].result = "None"

\* C33: text reply on provider failure.  When generate_chat_completion
\* returned None, handle_text gives nothing to the gateway and answers 500;
\* a message is sent only with a generated reply.
C33_NoReplyOnFailure ==
  /\ ChatFailed => (Steps({"send", "edit"}) = {} /\ http_status = 500)
  /\ (handler = << "handle_text" >> /\ update.entry = "handle_update") =>
       \A i \in Steps({"send"}) : log[i].text = "reply"

\* what holds of handle_text: a generated reply is sent once, with 200
C33_ReplySent ==
  (\E i \in Steps({"chat"}) : log[i].result = "ok") =>
    (Deliveries("reply") = {2} /\ Len(log) = 2 /\ http_status = 200)

\* a call has returned after a request of it failed
ServiceFailed(op) == svc.op = op /\ svc.pc = "done" /\ svc.failure # "None"

\* C24: single-call summarization fallback.  When the provider's call
\* failed, summarize_transcription returns the transcription it was given.
C24_FallbackToTranscription ==
  ServiceFailed("summarize_transcription") =>
    (svc.raised = "None" /\ svc.ret = svc.input)

\* C30: provider retry.  transcribe_audio reports a failure on OpenAIError
\* only after 3 attempts, and never makes more; generate_chat_completion
\* makes exactly one attempt.
C30_TranscribeRetried ==
  /\ svc.op = "transcribe_audio" => svc.attempts <= transcribe_max_tries
  /\ (ServiceFailed("transcribe_audio") /\ svc.failure = "OpenAIError") =>
       svc.attempts = transcribe_max_tries
  /\ (svc.op = "generate_chat_completion" /\ svc.pc = "done") => svc.attempts = 1

\* the second half of C30 (it holds): generate_chat_completion is attempted
\* exactly once, whatever the outcome
C30_ChatAttemptedOnce ==
  (svc.op \in {"generate_chat_completion", "summarize_transcription"}
     /\ svc.pc = "done") => svc.attempts = 1

\* a name without its leading "/", if it has one
Bare(name) == IF startswith_slash(name) THEN Tail(name) ELSE name

\* the registrations made under a name, the "/" apart
RegisteredAs(name) ==
  {i \in DOMAIN registrations : Bare(registrations[i].name) = Bare(name)}

\* the help text registered last under a name, None if there is none
LastHelp(name) ==
  IF RegisteredAs(name) = {} THEN "None"
  ELSE registrations[CHOOSE i \in RegisteredAs(name) :
                       \A j \in RegisteredAs(name) : j <= i].help_text

\* C34: command registry round trip.  get_command_help(name) returns the
\* help text registered last under that name, given with or without the
\* leading "/", and None for a name never registered.
C34_RoundTrip ==
  answer # NoAnswer => answer.ret = LastHelp(answer.name)

\* what holds of C34: "start" and "/start" are one entry, the later
\* registration replaces the earlier, and a name asked with its "/" gets
\* its help text; a name never registered gets None
C34_SingleEntry ==
  /\ \A k \in DOMAIN _commands : startswith_slash(k) /\ _commands[k].help_text = LastHelp(k)
  /\ Cardinality(DOMAIN _commands) = Cardinality({Bare(registrations[i].name) :
                                                    i \in DOMAIN registrations})
  /\ (answer # NoAnswer /\ startswith_slash(answer.name)) =>
       answer.ret = LastHelp(answer.name)
  /\ (answer # NoAnswer /\ RegisteredAs(answer.name) = {}) => answer.ret = "None"

\* C35: the synthesizer runs once.  The N edges from the workers start one
\* execution of the synthesizer, never a second; a run that succeeds has
\* run it exactly once, on a list that holds all N summaries, whatever the
\* order in which the workers finished.
C35_SynthesizerOnce ==
  /\ synth_runs <= 1
  /\ synth_runs = 1 => (NumWorkers >= 1 /\ Len(synth_input) = NumWorkers)
  /\ (stage = "DONE" /\ result.status = "ok") => synth_runs = 1

C35_Witness ==
  /\ stage = "DONE" /\ result.status = "ok"
  /\ NumWorkers = MaxSections
  /\ reordered
  /\ synth_runs = 1
  /\ Len(synth_input) = NumWorkers

\* the token counts of a record add up
TokensAdd(rec) == rec.total_tokens = rec.prompt_tokens + rec.completion_tokens

\* the token identity in a tracker: the global counters and every node record
TokenIdentity(tr) ==
  /\ TokensAdd(tr)
  /\ \A n \in NodeNames : TokensAdd(tr.node_costs[n])

\* no counter of the second tracker state is below that of the first
NotBelow(tr1, tr2) ==
  /\ \A f \in {"prompt_tokens", "completion_tokens", "total_tokens", "total_cost", "calls"} :
       tr2[f] >= tr1[f]
  /\ \A n \in NodeNames :
       \A f \in {"prompt_tokens", "completion_tokens", "total_tokens", "cost", "calls"} :
         tr2.node_costs[n][f] >= tr1.node_costs[n][f]

\* C36: token-count invariant.  Whenever no callback is in progress,
\* total_tokens = prompt_tokens + completion_tokens holds for the global
\* counters and for every node record of the run's tracker.
C36_TokenInvariant == Quiescent => TokenIdentity(tracker)

\* what holds of C36: a tracker whose handlers run one at a time keeps the
\* token identity after every handler
C36_SequentialTokenIdentity == TokenIdentity(trk)

\* and none of its counters ever decreases
C36_SequentialMonotone == [][NotBelow(trk, trk')]_vars

\* C37: call-count invariant.  Whenever no callback is in progress in a
\* pipeline run, the global calls counter equals the sum of the calls of
\* the node records.
C37_CallsAddUp == Quiescent => tracker.calls = NodeSum(tracker, "calls")

\* what holds of C37: the equality holds as long as no callback was
\* preempted, and no request is made before a node was set
C37_SequentialCallsAddUp ==
  /\ (Quiescent /\ preempts = 0) => tracker.calls = NodeSum(tracker, "calls")
  /\ (\E t \in Tasks : requests[t] > 0) => tracker.current_node # NoNode

====
